---- MODULE Spec2Model ----
(***************************************************************************)
(* Model of suggest-file (Crystalix007/cli-tools): the argument resolver   *)
(* glob.Expand with its helpers (expandTilde, splitPattern, expandGlob,    *)
(* expandPrefix), the walker package (IsIncludableFile, walkFiltered,      *)
(* Walk, WalkCollect, ListDir) and the command's argument loop.            *)
(*                                                                         *)
(* A Go string is a sequence of one-character strings, a file name is      *)
(* such a sequence without "/", and a file system is a function from the   *)
(* absolute path of a node (a sequence of names) to the node's record.     *)
(* A value the code names once and reads several times (info, entries, r)  *)
(* is the parameter of the operator that holds the code reading it.        *)
(***************************************************************************)
EXTENDS Integers, Sequences, FiniteSets, TLC

VARIABLES fs, home, pattern, args, argi, pc, res, stdout, stderr, exitCode

vars == <<fs, home, pattern, args, argi, pc, res, stdout, stderr, exitCode>>

(***************************************************************************)
(* Bounds.                                                                 *)
(***************************************************************************)
\* longest pattern handed to the pure string functions in SpecFn
MaxPatLen == 5
\* most arguments on one command line in SpecCLI
MaxArgs == 2
\* symbolic links followed while resolving one path (the kernel's ELOOP cap)
MaxSymlinks == 3

(***************************************************************************)
(* Strings.                                                                *)
(***************************************************************************)
Sep == "/"

\* byte value of the characters the model uses (ASCII), for sorting names
ByteOf(c) ==
  CASE c = "*" -> 42 [] c = "," -> 44 [] c = "." -> 46 [] c = "/" -> 47
    [] c = "?" -> 63 [] c = "[" -> 91 [] c = "]" -> 93
    [] c = "a" -> 97 [] c = "b" -> 98 [] c = "c" -> 99 [] c = "d" -> 100
    [] c = "f" -> 102 [] c = "g" -> 103 [] c = "h" -> 104 [] c = "k" -> 107
    [] c = "l" -> 108 [] c = "p" -> 112 [] c = "q" -> 113 [] c = "s" -> 115
    [] c = "w" -> 119 [] c = "x" -> 120 [] c = "y" -> 121
    [] c = "{" -> 123 [] c = "}" -> 125 [] c = "~" -> 126

RECURSIVE StrLess(_, _)
\* a < b for Go strings (bytewise lexicographic order)
StrLess(a, b) ==
  IF b = <<>> THEN FALSE
  ELSE IF a = <<>> THEN TRUE
  ELSE IF ByteOf(a[1]) # ByteOf(b[1]) THEN ByteOf(a[1]) < ByteOf(b[1])
  ELSE StrLess(Tail(a), Tail(b))

SeqToSet(s) == {s[i] : i \in 1..Len(s)}

RECURSIVE Flatten(_)
\* concatenation of a sequence of sequences
Flatten(ss) == IF ss = <<>> THEN <<>> ELSE Head(ss) \o Flatten(Tail(ss))

\* strings.HasPrefix
HasPrefix(s, p) == Len(p) <= Len(s) /\ SubSeq(s, 1, Len(p)) = p

\* strings.HasSuffix
HasSuffix(s, p) == Len(p) <= Len(s) /\ SubSeq(s, Len(s) - Len(p) + 1, Len(s)) = p

\* index of the first / last occurrence of character c in s, 0 if none
IndexOf(s, c) ==
  IF \E i \in 1..Len(s) : s[i] = c
  THEN CHOOSE i \in 1..Len(s) : s[i] = c /\ \A j \in 1..(i-1) : s[j] # c
  ELSE 0

LastIndexOf(s, c) ==
  IF \E i \in 1..Len(s) : s[i] = c
  THEN CHOOSE i \in 1..Len(s) : s[i] = c /\ \A j \in (i+1)..Len(s) : s[j] # c
  ELSE 0

RECURSIVE Split(_, _)
\* the part of Split after the first separator, at index i, was found
SplitAt(s, c, i) ==
  IF i = 0 THEN <<s>>
  ELSE <<SubSeq(s, 1, i-1)>> \o Split(SubSeq(s, i+1, Len(s)), c)

\* strings.Split(s, c): every substring between separators, empty ones kept
Split(s, c) == SplitAt(s, c, IndexOf(s, c))

RECURSIVE JoinStr(_, _)
\* strings.Join(parts, c)
JoinStr(parts, c) ==
  IF parts = <<>> THEN <<>>
  ELSE IF Len(parts) = 1 THEN parts[1]
  ELSE parts[1] \o <<c>> \o JoinStr(Tail(parts), c)

(***************************************************************************)
(* path/filepath (Unix).                                                   *)
(***************************************************************************)
Dot == <<".">>
DotDot == <<".", ".">>
Root == <<"/">>

\* filepath.IsAbs
IsAbs(p) == Len(p) > 0 /\ p[1] = Sep

RECURSIVE CleanComps(_, _, _)
\* the component loop of filepath.Clean: out is the stack built so far
CleanComps(comps, out, rooted) ==
  IF comps = <<>> THEN out
  ELSE IF Head(comps) = <<>> \/ Head(comps) = Dot THEN CleanComps(Tail(comps), out, rooted)
  ELSE IF Head(comps) = DotDot
    THEN IF out # <<>> /\ out[Len(out)] # DotDot
           THEN CleanComps(Tail(comps), SubSeq(out, 1, Len(out) - 1), rooted)
         ELSE IF rooted THEN CleanComps(Tail(comps), out, rooted)
         ELSE CleanComps(Tail(comps), Append(out, Head(comps)), rooted)
  ELSE CleanComps(Tail(comps), Append(out, Head(comps)), rooted)

\* the end of filepath.Clean: the components that are left, as a path
CleanOut(rooted, out) ==
  IF rooted THEN Root \o JoinStr(out, Sep)
  ELSE IF out = <<>> THEN Dot
  ELSE JoinStr(out, Sep)

\* filepath.Clean
Clean(p) ==
  IF p = <<>> THEN Dot
  ELSE CleanOut(p[1] = Sep, CleanComps(Split(p, Sep), <<>>, p[1] = Sep))

\* filepath.Dir: everything up to the last separator, cleaned
Dir(p) == Clean(SubSeq(p, 1, LastIndexOf(p, Sep)))

RECURSIVE StripTrailingSeps(_)
StripTrailingSeps(p) ==
  IF p # <<>> /\ p[Len(p)] = Sep THEN StripTrailingSeps(SubSeq(p, 1, Len(p) - 1))
  ELSE p

\* the end of filepath.Base: q is the path without its trailing separators
BaseOf(q) ==
  IF q = <<>> THEN Root
  ELSE SubSeq(q, LastIndexOf(q, Sep) + 1, Len(q))

\* filepath.Base
Base(p) == IF p = <<>> THEN Dot ELSE BaseOf(StripTrailingSeps(p))

\* filepath.Join(a, b): empty elements dropped, the rest joined and cleaned
Join(a, b) ==
  IF a = <<>> /\ b = <<>> THEN <<>>
  ELSE Clean(IF a = <<>> THEN b ELSE IF b = <<>> THEN a ELSE a \o Root \o b)

(***************************************************************************)
(* The file system and the system calls the program makes.                 *)
(***************************************************************************)
nH == <<"h">>
nW == <<"w">>
nP == <<"p">>
nPQ == <<"p", "q">>
nA == <<"a">>
nAStar == <<"a", "*">>
nAB == <<"a", "b">>
nHidFile == <<".", "h", "f">>
nHidDir == <<".", "g", "d">>
nS == <<"s">>
nC == <<"c">>
nD == <<"d">>
nF == <<"f">>
nK == <<"k">>
nL == <<"l">>
nX == <<"x">>
nYD == <<"y", "d">>
nKF == <<"k", "f">>

\* the process's working directory, as the absolute path of a node
Cwd == <<nW>>

DirNode(perm) == [kind |-> "dir", perm |-> perm, target |-> <<>>]
FileNode == [kind |-> "file", perm |-> TRUE, target |-> <<>>]
\* a socket, a FIFO or a device
SpecialNode == [kind |-> "special", perm |-> TRUE, target |-> <<>>]
SymlinkNode(target) == [kind |-> "symlink", perm |-> TRUE, target |-> target]

\* what the symbolic link /w/p/l points to, per configuration
LinkTarget(l) ==
  CASE l = "file" -> <<nW, nP, nA>>
    [] l = "dir" -> <<nW, nP, nS>>
    [] l = "special" -> <<nW, nP, nK>>
    [] l = "dangling" -> <<nW, nX>>

\* the entries every configuration has
CommonEntries ==
  { <<<<>>, DirNode(TRUE)>>,
    <<<<nH>>, DirNode(TRUE)>>,
    <<<<nH, nF>>, FileNode>>,
    <<<<nH, nHidDir>>, DirNode(TRUE)>>,
    <<<<nH, nHidDir, nC>>, FileNode>>,
    <<<<nW>>, DirNode(TRUE)>>,
    <<<<nW, nAStar>>, FileNode>>,
    <<<<nW, nAB>>, FileNode>>,
    <<<<nW, nPQ>>, DirNode(TRUE)>>,
    <<<<nW, nPQ, nD>>, FileNode>>,
    <<<<nW, nPQ, nL>>, SymlinkNode(<<nW, nP, nL>>)>>,
    <<<<nW, nYD>>, SymlinkNode(<<nW, nPQ>>)>> }

\* the contents of /w/p when it is a directory
ProjEntries(l) ==
  { <<<<nW, nP, nA>>, FileNode>>,
    <<<<nW, nP, nHidFile>>, FileNode>>,
    <<<<nW, nP, nHidDir>>, DirNode(TRUE)>>,
    <<<<nW, nP, nHidDir, nC>>, FileNode>>,
    <<<<nW, nP, nS>>, DirNode(TRUE)>>,
    <<<<nW, nP, nS, nC>>, FileNode>>,
    <<<<nW, nP, nK>>, SpecialNode>>,
    <<<<nW, nP, nKF>>, FileNode>>,
    <<<<nW, nP, nL>>, SymlinkNode(LinkTarget(l))>> }

\* /w/p itself: a directory, a directory without permissions, a regular
\* file, a socket, a symbolic link to the directory /w/pq, or nothing
FsEntries(c) ==
  CommonEntries \cup
  ( CASE c.p = "dir" -> {<<<<nW, nP>>, DirNode(TRUE)>>} \cup ProjEntries(c.l)
      [] c.p = "noperm" -> {<<<<nW, nP>>, DirNode(FALSE)>>} \cup ProjEntries(c.l)
      [] c.p = "file" -> {<<<<nW, nP>>, FileNode>>}
      [] c.p = "special" -> {<<<<nW, nP>>, SpecialNode>>}
      [] c.p = "symdir" -> {<<<<nW, nP>>, SymlinkNode(<<nW, nPQ>>)>>}
      [] c.p = "absent" -> {} )

MkFS(c) ==
  LET es == FsEntries(c)
  IN [q \in {e[1] : e \in es} |-> (CHOOSE e \in es : e[1] = q)[2]]

FsConfigs ==
  {[p |-> "dir", l |-> t] : t \in {"file", "dir", "special", "dangling"}}
  \cup {[p |-> k, l |-> "file"] : k \in {"noperm", "file", "special", "symdir", "absent"}}

FileSystems == {MkFS(c) : c \in FsConfigs}

\* os.UserHomeDir: $HOME, or an error when it is not set
Homes == {[ok |-> TRUE, dir |-> <<"/", "h">>], [ok |-> TRUE, dir |-> <<"/">>],
          [ok |-> FALSE, dir |-> <<>>]}

\* the least name of S
MinName(S) == CHOOSE x \in S : \A y \in S \ {x} : StrLess(x, y)

RECURSIVE SortNames(_)
SortFrom(S, m) == <<m>> \o SortNames(S \ {m})

\* the names of S by filename, as os.ReadDir returns them
SortNames(S) == IF S = {} THEN <<>> ELSE SortFrom(S, MinName(S))

NonEmpty(comps) == SelectSeq(comps, LAMBDA c : c # <<>>)

ChildNames(node) ==
  {q[Len(q)] : q \in {r \in DOMAIN fs : Len(r) = Len(node) + 1
                                         /\ SubSeq(r, 1, Len(node)) = node}}

Failure(e) == [err |-> e, node |-> <<>>]

ParentNode(cur) == IF cur = <<>> THEN cur ELSE SubSeq(cur, 1, Len(cur) - 1)

RECURSIVE ResolveFrom(_, _, _, _)
\* the kernel's path walk from directory cur along comps; follow says
\* whether a symbolic link in the last component is followed
ResolveFrom(cur, comps, follow, fuel) ==
  IF comps = <<>> THEN [err |-> "none", node |-> cur]
  ELSE IF ~fs[cur].perm THEN Failure("EACCES")
  ELSE IF Head(comps) = Dot THEN ResolveFrom(cur, Tail(comps), follow, fuel)
  ELSE IF Head(comps) = DotDot THEN ResolveFrom(ParentNode(cur), Tail(comps), follow, fuel)
  ELSE IF Append(cur, Head(comps)) \notin DOMAIN fs THEN Failure("ENOENT")
  ELSE IF fs[Append(cur, Head(comps))].kind = "symlink" /\ (Tail(comps) # <<>> \/ follow)
    THEN IF fuel = 0 THEN Failure("ELOOP")
         ELSE ResolveFrom(<<>>, fs[Append(cur, Head(comps))].target \o Tail(comps),
                          follow, fuel - 1)
  ELSE IF Tail(comps) = <<>> THEN [err |-> "none", node |-> Append(cur, Head(comps))]
  ELSE IF fs[Append(cur, Head(comps))].kind = "dir"
    THEN ResolveFrom(Append(cur, Head(comps)), Tail(comps), follow, fuel)
  ELSE Failure("ENOTDIR")

\* a path that ends in a separator names a directory
DirOnly(slash, r) ==
  IF r.err = "none" /\ slash /\ fs[r.node].kind # "dir" THEN Failure("ENOTDIR") ELSE r

ResolveComps(path, follow, comps) ==
  DirOnly(comps # <<>> /\ path[Len(path)] = Sep,
          ResolveFrom(IF IsAbs(path) THEN <<>> ELSE Cwd, comps,
                      follow \/ (comps # <<>> /\ path[Len(path)] = Sep), MaxSymlinks))

\* the node a path string names; the last symbolic link of a path that
\* ends in a separator is followed
Resolve(path, follow) ==
  IF path = <<>> THEN Failure("ENOENT")
  ELSE ResolveComps(path, follow, NonEmpty(Split(path, Sep)))

InfoOf(r) ==
  IF r.err # "none" THEN [err |-> r.err, kind |-> "none"]
  ELSE [err |-> "none", kind |-> fs[r.node].kind]

\* os.Stat: the node's type after following symbolic links
Stat(path) == InfoOf(Resolve(path, TRUE))

\* os.Lstat: the node's own type
Lstat(path) == InfoOf(Resolve(path, FALSE))

\* os.IsNotExist
IsNotExist(e) == e = "ENOENT"

EntryList(node, names) ==
  [i \in 1..Len(names) |-> [name |-> names[i], type |-> fs[Append(node, names[i])].kind]]

EntriesOf(r) ==
  IF r.err # "none" THEN [err |-> r.err, entries |-> <<>>]
  ELSE IF fs[r.node].kind # "dir" THEN [err |-> "ENOTDIR", entries |-> <<>>]
  ELSE IF ~fs[r.node].perm THEN [err |-> "EACCES", entries |-> <<>>]
  ELSE [err |-> "none", entries |-> EntryList(r.node, SortNames(ChildNames(r.node)))]

\* os.ReadDir: the directory's entries sorted by name, each with its own type
ReadDir(path) == EntriesOf(Resolve(path, TRUE))

(***************************************************************************)
(* Package walker.                                                         *)
(***************************************************************************)
\* IsIncludableFile on a symbolic link, after info, err := os.Stat(path)
IncludableTarget(info) ==
  IF info.err # "none" \/ info.kind = "dir" THEN FALSE
  ELSE info.kind = "file"

\* IsIncludableFile that takes every symbolic link to a non-directory
IsIncludableFileAnyTarget(path, mode) ==
  IF mode = "symlink" THEN Stat(path).err = "none" /\ Stat(path).kind # "dir"
  ELSE mode = "file"

\* IsIncludableFile(path, mode): a regular file, or a symbolic link that
\* os.Stat resolves to a regular file
IsIncludableFile(path, mode) ==
  IF mode = "symlink" THEN IncludableTarget(Stat(path))
  ELSE mode = "file"

\* the pruning test without its exception for the root
SkipsHiddenAlsoRoot(root, path, d) ==
  d.type = "dir" /\ d.name # <<>> /\ d.name[1] = "."

\* the test of walkFiltered's callback that prunes a hidden directory
SkipsHiddenDir(root, path, d) ==
  d.type = "dir" /\ path # root /\ d.name[1] = "."

Nothing == [ret |-> "nil", emit |-> <<>>, log |-> <<>>]

\* the callback handing a traversal error back to filepath.WalkDir
WalkFnAbort(root, path, d, err) ==
  IF err # "none"
    THEN [ret |-> err, emit |-> <<>>, log |-> <<<<"suggest-file: ", err>>>>]
  ELSE IF SkipsHiddenDir(root, path, d)
    THEN [ret |-> "SkipDir", emit |-> <<>>, log |-> <<>>]
  ELSE IF d.type = "dir" THEN Nothing
  ELSE IF IsIncludableFile(path, d.type)
    THEN [ret |-> "nil", emit |-> <<path>>, log |-> <<>>]
  ELSE Nothing

\* walkFiltered's callback: what it returns to filepath.WalkDir, what it
\* emits and what it writes to stderr
WalkFn(root, path, d, err) ==
  IF err # "none"
    THEN [ret |-> "nil", emit |-> <<>>, log |-> <<<<"suggest-file: ", err>>>>]
  ELSE IF SkipsHiddenDir(root, path, d)
    THEN [ret |-> "SkipDir", emit |-> <<>>, log |-> <<>>]
  ELSE IF d.type = "dir" THEN Nothing
  ELSE IF IsIncludableFile(path, d.type)
    THEN [ret |-> "nil", emit |-> <<path>>, log |-> <<>>]
  ELSE Nothing

\* what a and then b did, returning what b returned
Then(a, b) == [ret |-> b.ret, emit |-> a.emit \o b.emit, log |-> a.log \o b.log]

RECURSIVE WalkDirRec(_, _, _)
RECURSIVE WalkEntries(_, _, _)
\* walkDir's loop after walkDir on its first entry returned r: SkipDir
\* ends the loop, any other error is returned
EntryDone(path, entries, root, r) ==
  IF r.ret = "SkipDir" THEN [ret |-> "nil", emit |-> r.emit, log |-> r.log]
  ELSE IF r.ret # "nil" THEN r
  ELSE Then(r, WalkEntries(path, Tail(entries), root))

\* the loop of walkDir over a directory's entries
WalkEntries(path, entries, root) ==
  IF entries = <<>> THEN Nothing
  ELSE EntryDone(path, entries, root,
                 WalkDirRec(Join(path, Head(entries).name), Head(entries), root))

\* walkDir after os.ReadDir: r2 is what the callback did with the error
ReadDone(path, root, rd, r2) ==
  IF r2.ret # "nil" THEN [ret |-> IF r2.ret = "SkipDir" THEN "nil" ELSE r2.ret,
                          emit |-> r2.emit, log |-> r2.log]
  ELSE Then(r2, WalkEntries(path, rd.entries, root))

\* walkDir on a directory the callback did not skip: rd is os.ReadDir(path)
Descend(path, d, root, rd) ==
  ReadDone(path, root, rd,
           IF rd.err # "none" THEN WalkFn(root, path, d, rd.err) ELSE Nothing)

\* walkDir after the callback on the entry itself returned r1
FnDone(path, d, root, r1) ==
  IF r1.ret # "nil" \/ d.type # "dir"
  THEN [ret |-> IF r1.ret = "SkipDir" /\ d.type = "dir" THEN "nil" ELSE r1.ret,
        emit |-> r1.emit, log |-> r1.log]
  ELSE Then(r1, Descend(path, d, root, ReadDir(path)))

\* filepath's walkDir(path, d, fn): the callback on the entry, then, for a
\* directory the callback did not skip, its entries in name order
WalkDirRec(path, d, root) == FnDone(path, d, root, WalkFn(root, path, d, "none"))

\* filepath.WalkDir after info, err := os.Lstat(root)
WalkRoot(root, info) ==
  IF info.err # "none" THEN WalkFn(root, root, [name |-> <<>>, type |-> "none"], info.err)
  ELSE WalkDirRec(root, [name |-> Base(root), type |-> info.kind], root)

WalkResult(r) ==
  [err |-> IF r.ret = "SkipDir" THEN "nil" ELSE r.ret, emit |-> r.emit, log |-> r.log]

\* walkFiltered(root, emit): filepath.WalkDir(root, callback)
WalkFiltered(root) == WalkResult(WalkRoot(root, Lstat(root)))

Collected(w) ==
  [matches |-> w.emit, err |-> IF w.err = "nil" THEN "none" ELSE w.err, log |-> w.log]

\* WalkCollect(root): the emitted paths as a slice, and walkFiltered's error
WalkCollect(root) == Collected(WalkFiltered(root))

\* the body of ListDir's loop for entry e
ListEntry(full, e) == IF IsIncludableFile(full, e.type) THEN <<full>> ELSE <<>>

RECURSIVE ListEntries(_, _)
\* the loop of ListDir over the directory's entries
ListEntries(dir, entries) ==
  IF entries = <<>> THEN <<>>
  ELSE ListEntry(Join(dir, Head(entries).name), Head(entries))
       \o ListEntries(dir, Tail(entries))

\* ListDir after entries, err := os.ReadDir(dir)
ListRead(dir, rd) ==
  IF rd.err # "none" THEN [matches |-> <<>>, err |-> "listing", log |-> <<>>]
  ELSE [matches |-> ListEntries(dir, rd.entries), err |-> "none", log |-> <<>>]

\* ListDir that descends, as the recursive walk does
ListDirRecursive(dir) == WalkCollect(dir)

\* ListDir(dir): the includable files directly inside dir
ListDir(dir) == ListRead(dir, ReadDir(dir))

(***************************************************************************)
(* doublestar.Glob on os.DirFS(base), as far as the program uses it: "*",  *)
(* "?", a character class of plain characters, one level of braces, and a  *)
(* "**" component.  A name starting with "." gets no special treatment.    *)
(* Directories reached through symbolic links are entered; file system     *)
(* errors are ignored; the only error is a malformed pattern.              *)
(***************************************************************************)
RECURSIVE GlobValid(_)
\* a class that opens at p[1]: rest is what follows its first member
ClassValid(p, rest) ==
  Len(p) >= 3 /\ IndexOf(rest, "]") > 0
  /\ GlobValid(SubSeq(rest, IndexOf(rest, "]") + 1, Len(rest)))

\* a brace that opens at p[1] and closes at p[j]
BraceValid(p, j) ==
  j > 0 /\ GlobValid(SubSeq(p, 2, j - 1)) /\ GlobValid(SubSeq(p, j + 1, Len(p)))

\* doublestar.ValidatePattern: every class and every brace is closed
GlobValid(p) ==
  IF p = <<>> THEN TRUE
  ELSE IF p[1] = "[" THEN ClassValid(p, SubSeq(p, 3, Len(p)))
  ELSE IF p[1] = "{" THEN BraceValid(p, IndexOf(p, "}"))
  ELSE GlobValid(Tail(p))

RECURSIVE BraceExpand(_)
\* the alternatives alts of the brace p[i..j], each within the pattern
BraceAlts(p, i, j, alts) ==
  Flatten([k \in 1..Len(alts) |->
             BraceExpand(SubSeq(p, 1, i - 1) \o alts[k] \o SubSeq(p, j + 1, Len(p)))])

BraceAt(p, i, j) ==
  IF i = 0 THEN <<p>> ELSE BraceAlts(p, i, j, Split(SubSeq(p, i + 1, j - 1), ","))

\* the alternatives of a valid pattern, in order
BraceExpand(p) == BraceAt(p, IndexOf(p, "{"), IndexOf(p, "}"))

RECURSIVE SegMatch(_, _)
\* a class at the head of the pattern: rest follows its first member, and
\* the class closes at rest[j]
ClassMatch(pat, name, rest, j) ==
  /\ name # <<>>
  /\ name[1] \in {pat[2]} \cup SeqToSet(SubSeq(rest, 1, j - 1))
  /\ SegMatch(SubSeq(rest, j + 1, Len(rest)), Tail(name))

\* one brace-free pattern component against one name
SegMatch(pat, name) ==
  IF pat = <<>> THEN name = <<>>
  ELSE IF pat[1] = "*"
    THEN SegMatch(Tail(pat), name) \/ (name # <<>> /\ SegMatch(pat, Tail(name)))
  ELSE IF pat[1] = "?"
    THEN name # <<>> /\ SegMatch(Tail(pat), Tail(name))
  ELSE IF pat[1] = "["
    THEN ClassMatch(pat, name, SubSeq(pat, 3, Len(pat)),
                    IndexOf(SubSeq(pat, 3, Len(pat)), "]"))
  ELSE name # <<>> /\ name[1] = pat[1] /\ SegMatch(Tail(pat), Tail(name))

RelJoin(rel, n) == IF rel = <<>> THEN n ELSE rel \o Root \o n

IsDirNode(c) == c.err = "none" /\ fs[c.node].kind = "dir"

\* the names in directory node, none if it cannot be read
GlobNames(node) ==
  IF fs[node].kind = "dir" /\ fs[node].perm THEN SortNames(ChildNames(node)) ELSE <<>>

RECURSIVE GlobWalk(_, _, _)
\* an entry c, at path rel, under a "**" component that heads segs
StarStarEntry(segs, rel, c) ==
  IF IsDirNode(c) THEN GlobWalk(c.node, segs, rel)
  ELSE IF Tail(segs) = <<>> THEN <<rel>>
  ELSE <<>>

\* an entry c, at path rel, whose name matched; rest are the components left
SegEntry(rest, rel, c) ==
  IF rest = <<>> THEN <<rel>>
  ELSE IF IsDirNode(c) THEN GlobWalk(c.node, rest, rel)
  ELSE <<>>

\* the matches below directory node, whose entries are names
GlobLevel(node, segs, rel, names) ==
  IF Head(segs) = <<"*", "*">>
  THEN (IF Tail(segs) = <<>> THEN <<rel>> ELSE GlobWalk(node, Tail(segs), rel))
       \o Flatten([i \in 1..Len(names) |->
                     StarStarEntry(segs, RelJoin(rel, names[i]),
                                   ResolveFrom(node, <<names[i]>>, TRUE, MaxSymlinks))])
  ELSE Flatten([i \in 1..Len(names) |->
                  IF ~SegMatch(Head(segs), names[i]) THEN <<>>
                  ELSE SegEntry(Tail(segs), RelJoin(rel, names[i]),
                                ResolveFrom(node, <<names[i]>>, TRUE, MaxSymlinks))])

\* the paths, relative to the glob's root, that match the components segs
\* below directory node; rel is the path of node itself
GlobWalk(node, segs, rel) ==
  IF segs = <<>> THEN <<rel>> ELSE GlobLevel(node, segs, rel, GlobNames(node))

\* the matches of a valid pattern with alternatives alts under r, the node
\* of the glob's root
GlobUnder(globPart, r, alts) ==
  IF r.err # "none" THEN [err |-> "none", matches |-> <<>>]
  ELSE IF globPart = Dot THEN [err |-> "none", matches |-> <<Dot>>]
  ELSE [err |-> "none",
        matches |-> Flatten([k \in 1..Len(alts) |->
                               GlobWalk(r.node, Split(alts[k], Sep), <<>>)])]

\* doublestar.Glob(os.DirFS(base), globPart)
DoublestarGlob(base, globPart) ==
  IF ~GlobValid(globPart) THEN [err |-> "ErrBadPattern", matches |-> <<>>]
  ELSE GlobUnder(globPart, Resolve(base, TRUE), BraceExpand(globPart))

(***************************************************************************)
(* Package glob.                                                           *)
(***************************************************************************)
\* containsMeta without the brace of doublestar's alternation
ContainsMetaNoBrace(s) == \E i \in 1..Len(s) : s[i] \in {"*", "?", "["}

\* containsMeta(s): strings.ContainsAny(s, "*?[{")
ContainsMeta(s) == \E i \in 1..Len(s) : s[i] \in {"*", "?", "[", "{"}

\* expandTilde joining the home directory and the rest with filepath.Join
ExpandTildeJoin(pat) ==
  IF pat = <<"~">> \/ HasPrefix(pat, <<"~", "/">>)
  THEN IF ~home.ok THEN [err |-> "home", path |-> <<>>]
       ELSE [err |-> "none", path |-> Join(home.dir, SubSeq(pat, 3, Len(pat)))]
  ELSE [err |-> "none", path |-> pat]

\* expandTilde(pattern)
ExpandTilde(pat) ==
  IF pat = <<"~">> \/ HasPrefix(pat, <<"~", "/">>)
  THEN IF ~home.ok THEN [err |-> "home", path |-> <<>>]
       ELSE IF Len(pat) > 1 THEN [err |-> "none", path |-> home.dir \o Tail(pat)]
       ELSE [err |-> "none", path |-> home.dir]
  ELSE [err |-> "none", path |-> pat]

\* the scan of splitPattern run from the right: the last such component
FirstMetaFromRight(parts, start) ==
  IF \E i \in start..(Len(parts) - 1) : ContainsMeta(parts[i + 1])
  THEN CHOOSE i \in start..(Len(parts) - 1) :
         /\ ContainsMeta(parts[i + 1])
         /\ \A j \in (i + 1)..(Len(parts) - 1) : ~ContainsMeta(parts[j + 1])
  ELSE Len(parts)

\* the least i in start..Len(parts) with a metacharacter in the code's
\* parts[i], or Len(parts): the loop of splitPattern
FirstMeta(parts, start) ==
  IF \E i \in start..(Len(parts) - 1) : ContainsMeta(parts[i + 1])
  THEN CHOOSE i \in start..(Len(parts) - 1) :
         /\ ContainsMeta(parts[i + 1])
         /\ \A j \in start..(i - 1) : ~ContainsMeta(parts[j + 1])
  ELSE Len(parts)

\* the base splitPattern joins from the components before the glob
BaseOrRoot(joined) == IF joined = <<>> THEN Root ELSE joined

\* splitPattern without the fallback for idx = len(parts)
SplitAtIdxNoFallback(cl, isAbs, parts, start, idx) ==
  IF idx = start
  THEN IF isAbs
         THEN [base |-> Root, glob |-> JoinStr(SubSeq(parts, start + 1, Len(parts)), Sep)]
       ELSE [base |-> Dot, glob |-> cl]
  ELSE [base |-> BaseOrRoot(JoinStr(SubSeq(parts, 1, idx), Sep)),
        glob |-> JoinStr(SubSeq(parts, idx + 1, Len(parts)), Sep)]

\* splitPattern once idx is known; the code's parts[i] is parts[i+1] here
SplitAtIdx(cl, isAbs, parts, start, idx) ==
  IF idx = start
  THEN IF isAbs
         THEN [base |-> Root, glob |-> JoinStr(SubSeq(parts, start + 1, Len(parts)), Sep)]
       ELSE [base |-> Dot, glob |-> cl]
  ELSE IF idx = Len(parts) THEN [base |-> Dir(cl), glob |-> Base(cl)]
  ELSE [base |-> BaseOrRoot(JoinStr(SubSeq(parts, 1, idx), Sep)),
        glob |-> JoinStr(SubSeq(parts, idx + 1, Len(parts)), Sep)]

SplitFrom(cl, isAbs, parts, start) ==
  SplitAtIdx(cl, isAbs, parts, start, FirstMeta(parts, start))

SplitParts(cl, isAbs, parts) ==
  SplitFrom(cl, isAbs, parts, IF isAbs /\ Len(parts) > 0 /\ parts[1] = <<>> THEN 1 ELSE 0)

SplitCleaned(cl) == SplitParts(cl, IsAbs(cl), Split(cl, Sep))

\* splitPattern(pattern)
SplitPattern(pat) == SplitCleaned(Clean(pat))

\* the body of expandGlob's loop on the match joined to the base
GlobKeep(full, info) ==
  IF info.err = "none" /\ IsIncludableFile(full, info.kind) THEN <<full>> ELSE <<>>

GlobMatch(full) == GlobKeep(full, Lstat(full))

RECURSIVE GlobFilter(_, _)
\* the loop of expandGlob over the matches
GlobFilter(base, matches) ==
  IF matches = <<>> THEN <<>>
  ELSE GlobMatch(Join(base, Head(matches))) \o GlobFilter(base, Tail(matches))

GlobResults(base, g) ==
  IF g.err # "none" THEN [matches |-> <<>>, err |-> "glob", log |-> <<>>]
  ELSE [matches |-> GlobFilter(base, g.matches), err |-> "none", log |-> <<>>]

GlobSplit(sp) == GlobResults(sp.base, DoublestarGlob(sp.base, sp.glob))

\* expandGlob(pattern)
ExpandGlob(pat) == GlobSplit(SplitPattern(pat))

NoMatches == [matches |-> <<>>, err |-> "none", log |-> <<>>]

\* expandPrefix's loop on an entry that is not a symbolic link, or is one
\* that os.Stat resolved
PrefixKeep(full, e, isDir) ==
  IF isDir THEN WalkCollect(full)
  ELSE IF IsIncludableFile(full, e.type)
    THEN [matches |-> <<full>>, err |-> "none", log |-> <<>>]
  ELSE NoMatches

\* expandPrefix's loop on a symbolic link, after os.Stat(full)
PrefixLink(full, e, resolved) ==
  IF resolved.err # "none" THEN NoMatches
  ELSE PrefixKeep(full, e, resolved.kind = "dir")

\* the loop's body with hidden entries left out
PrefixEntrySkipHidden(full, prefix, e) ==
  IF ~HasPrefix(e.name, prefix) \/ e.name[1] = "." THEN NoMatches
  ELSE IF e.type = "symlink" THEN PrefixLink(full, e, Stat(full))
  ELSE PrefixKeep(full, e, e.type = "dir")

\* the body of expandPrefix's loop for entry e: what it appends, and the
\* error that ends the loop
PrefixEntry(full, prefix, e) ==
  IF ~HasPrefix(e.name, prefix) THEN NoMatches
  ELSE IF e.type = "symlink" THEN PrefixLink(full, e, Stat(full))
  ELSE PrefixKeep(full, e, e.type = "dir")

\* the results so far and the results of the rest of the loop
AppendResults(r, rs) ==
  IF rs.err # "none" THEN [matches |-> <<>>, err |-> rs.err, log |-> r.log \o rs.log]
  ELSE [matches |-> r.matches \o rs.matches, err |-> "none", log |-> r.log \o rs.log]

RECURSIVE PrefixEntries(_, _, _)
\* expandPrefix's loop after its body returned r for the first entry
PrefixAppend(r, dir, prefix, entries) ==
  IF r.err # "none" THEN [matches |-> <<>>, err |-> r.err, log |-> r.log]
  ELSE AppendResults(r, PrefixEntries(dir, prefix, Tail(entries)))

\* expandPrefix's loop
PrefixEntries(dir, prefix, entries) ==
  IF entries = <<>> THEN NoMatches
  ELSE PrefixAppend(PrefixEntry(Join(dir, Head(entries).name), prefix, Head(entries)),
                    dir, prefix, entries)

PrefixRead(dir, prefix, rd) ==
  IF rd.err # "none" THEN [matches |-> <<>>, err |-> "reading", log |-> <<>>]
  ELSE PrefixEntries(dir, prefix, rd.entries)

\* expandPrefix(path)
ExpandPrefix(path) == PrefixRead(Dir(path), Base(path), ReadDir(Dir(path)))

\* an outcome with the rule of Expand that produced it
Via(branch, r) == [matches |-> r.matches, err |-> r.err, log |-> r.log, branch |-> branch]

\* steps 4 to 6 without the directory rule: a directory goes to prefix matching
ExpandInfoNoDirRule(cleaned, info) ==
  IF info.err = "none" /\ info.kind = "file"
    THEN Via("file", [matches |-> <<cleaned>>, err |-> "none", log |-> <<>>])
  ELSE IF info.err # "none" /\ ~IsNotExist(info.err)
    THEN Via("stat", [matches |-> <<>>, err |-> "stat", log |-> <<>>])
  ELSE Via("prefix", ExpandPrefix(cleaned))

\* steps 4 to 6 taking everything that is not a directory for a file
ExpandInfoAnyFile(cleaned, info) ==
  IF info.err = "none" /\ info.kind = "dir" THEN Via("walk", WalkCollect(cleaned))
  ELSE IF info.err = "none"
    THEN Via("file", [matches |-> <<cleaned>>, err |-> "none", log |-> <<>>])
  ELSE IF ~IsNotExist(info.err)
    THEN Via("stat", [matches |-> <<>>, err |-> "stat", log |-> <<>>])
  ELSE Via("prefix", ExpandPrefix(cleaned))

\* steps 4 to 6 where every failure of os.Stat falls through to prefix matching
ExpandInfoFallThrough(cleaned, info) ==
  IF info.err = "none" /\ info.kind = "dir" THEN Via("walk", WalkCollect(cleaned))
  ELSE IF info.err = "none" /\ info.kind = "file"
    THEN Via("file", [matches |-> <<cleaned>>, err |-> "none", log |-> <<>>])
  ELSE Via("prefix", ExpandPrefix(cleaned))

\* Expand, steps 4 to 6, after info, err := os.Stat(cleaned): the recursive
\* walk, the exact file, an error, or prefix matching
ExpandInfo(cleaned, info) ==
  IF info.err = "none" /\ info.kind = "dir" THEN Via("walk", WalkCollect(cleaned))
  ELSE IF info.err = "none" /\ info.kind = "file"
    THEN Via("file", [matches |-> <<cleaned>>, err |-> "none", log |-> <<>>])
  ELSE IF info.err # "none" /\ ~IsNotExist(info.err)
    THEN Via("stat", [matches |-> <<>>, err |-> "stat", log |-> <<>>])
  ELSE Via("prefix", ExpandPrefix(cleaned))

ExpandStat(cleaned) == ExpandInfo(cleaned, Stat(cleaned))

\* Expand, steps 2 to 6, on the tilde-expanded argument
ExpandPath(expanded) ==
  IF ContainsMeta(expanded) THEN Via("glob", ExpandGlob(expanded))
  ELSE IF HasSuffix(expanded, Root) THEN Via("listdir", ListDir(Clean(expanded)))
  ELSE ExpandStat(Clean(expanded))

\* Expand after expanded, err := expandTilde(pattern)
ExpandTilded(t) ==
  IF t.err # "none" THEN Via("tilde", [matches |-> <<>>, err |-> "home", log |-> <<>>])
  ELSE ExpandPath(t.path)

\* Expand(pattern)
Expand(pat) == ExpandTilded(ExpandTilde(pat))

(***************************************************************************)
(* Specification Spec: one call of glob.Expand, or of walker.Walk, on one  *)
(* argument in one file system.                                            *)
(***************************************************************************)
\* the arguments tried
Arguments ==
  { <<>>, <<".">>, <<".", ".">>, <<"/">>,
    <<"/", ".">>, <<"~">>, <<"~", "/">>, <<"~", "/", "f">>,
    <<"~", "/", ".", "g">>, <<"~", "p">>, <<"p">>, <<"p", "/">>,
    <<"p", "q">>, <<"p", "q", "/">>, <<"p", "q", "/", "l">>, <<"p", "/", "a">>,
    <<"p", "/", "a", "/">>, <<"p", "/", "a", "/", "x">>, <<"p", "/", "s">>, <<"p", "/", "s", "/">>,
    <<"p", "/", ".", "g", "d">>, <<"p", "/", ".", "g">>, <<"p", "/", ".", "h">>, <<"p", "/", "l">>,
    <<"p", "/", "l", "/">>, <<"p", "/", "l", "/", "c">>, <<"p", "/", "k">>, <<"p", "/", "x">>,
    <<"x">>, <<"a">>, <<"a", "*">>, <<"*">>,
    <<"p", "*">>, <<"p", "*", "/">>, <<"p", "/", "*">>, <<"*", "*">>,
    <<"p", "/", "*", "*">>, <<"*", "*", "/", "c">>, <<"p", "/", "?">>, <<"p", "/", "[", "a", "s", "]">>,
    <<"p", "/", "{", "a", ",", "l", "}">>, <<"[">>, <<"p", "/", "{", "a">>, <<"/", "w", "/", "p">>,
    <<"/", "w", "/", "p", "/">>, <<"/", "w", "/", "p", "*">>, <<".", "/", "p">>, <<"p", "/", ".", ".", "/", "p", "q">>,
    <<"p", "/", "/", "a">>, <<"p", "q", "/", ".", ".", "/", "p", "/", ".">>,
    <<"y">>, <<"y", "d">>, <<"y", "d", "/">> }

NoResult == [matches |-> <<>>, err |-> "none", log |-> <<>>, branch |-> "none"]

Init ==
  /\ fs \in FileSystems
  /\ home \in Homes
  /\ pattern \in Arguments
  /\ args = <<>>
  /\ argi = 0
  /\ pc = "call"
  /\ res = NoResult
  /\ stdout = <<>>
  /\ stderr = <<>>
  /\ exitCode = 0

\* matches, err := glob.Expand(pattern); what the walk reports goes to stderr
CallExpand ==
  /\ pc = "call"
  /\ res' = Expand(pattern)
  /\ stderr' = stderr \o res'.log
  /\ pc' = "expanded"
  /\ UNCHANGED <<fs, home, pattern, args, argi, stdout, exitCode>>

\* err := walker.Walk(pattern): every emitted path is a line on stdout
CallWalk ==
  /\ pc = "call"
  /\ LET w == WalkFiltered(pattern)
     IN /\ stdout' = stdout \o w.emit
        /\ stderr' = stderr \o w.log
        /\ res' = [matches |-> <<>>, err |-> IF w.err = "nil" THEN "none" ELSE w.err,
                   log |-> w.log, branch |-> "Walk"]
  /\ pc' = "walked"
  /\ UNCHANGED <<fs, home, pattern, args, argi, exitCode>>

Next == CallExpand \/ CallWalk

Spec == Init /\ [][Next]_vars

(***************************************************************************)
(* SpecFn: expandTilde and splitPattern on every short pattern.            *)
(***************************************************************************)
FnAlphabet == {"a", ".", "/", "*", "{", "~"}

Patterns == UNION {[1..k -> FnAlphabet] : k \in 0..MaxPatLen}

InitFn ==
  /\ fs = MkFS([p |-> "dir", l |-> "file"])
  /\ home \in Homes
  /\ pattern \in Patterns
  /\ args = <<>>
  /\ argi = 0
  /\ pc = "call"
  /\ res = NoResult
  /\ stdout = <<>>
  /\ stderr = <<>>
  /\ exitCode = 0

\* expanded, err := expandTilde(pattern)
CallExpandTilde ==
  /\ pc = "call"
  /\ res' = ExpandTilde(pattern)
  /\ pc' = "tilde"
  /\ UNCHANGED <<fs, home, pattern, args, argi, stdout, stderr, exitCode>>

\* base, globPart := splitPattern(pattern)
CallSplitPattern ==
  /\ pc = "call"
  /\ res' = SplitPattern(pattern)
  /\ pc' = "split"
  /\ UNCHANGED <<fs, home, pattern, args, argi, stdout, stderr, exitCode>>

NextFn == CallExpandTilde \/ CallSplitPattern

SpecFn == InitFn /\ [][NextFn]_vars

(***************************************************************************)
(* SpecCLI: func main of the suggest-file command.                         *)
(***************************************************************************)
HelpText ==
  << <<"Usage: suggest-file [PATTERN ...]">>,
     <<"       suggest-file --shell bash|zsh">>,
     <<"List files matching patterns. With no arguments, list all files recursively.">>,
     <<"">>,
     <<"Options:">>,
     <<"  --shell bash|zsh  Enable suggest-file completion in your shell.">>,
     <<"                    Prints a snippet to stdout; source it in your rc file.">>,
     <<"">>,
     <<"Argument resolution:">>,
     <<"  DIRECTORY          Recursively list all files under it (e.g. ~, ~/Downloads, .)">>,
     <<"  PATH/             Trailing slash: list files in that directory recursively">>,
     <<"  PREFIX            Match entries starting with prefix, walk matching dirs">>,
     <<"  GLOB              Standard glob with *, ?, [, ** for recursive matching">>,
     <<"">>,
     <<"Supports ~ expansion to home directory.">>,
     <<"">>,
     <<"Examples:">>,
     <<"  suggest-file                     # list all files in current directory">>,
     <<"  suggest-file ~                   # all files under home directory">>,
     <<"  suggest-file ~/Downloads          # all files under ~/Downloads recursively">>,
     <<"  suggest-file ~/.config/           # files directly in ~/.config (one level)">>,
     <<"  suggest-file ~/D                  # files under ~/Downloads, ~/Documents, etc.">>,
     <<"  suggest-file '~/.config/*.yaml'  # yaml files in ~/.config">>,
     <<"  suggest-file '**/*.go'           # all Go files recursively">> >>

HelpFlags == {<<"-", "h">>, <<"-", "-", "h", "e", "l", "p">>}
ShellFlag == <<"-", "-", "s", "h", "e", "l", "l">>
Bash == <<"b", "a", "s", "h">>
Zsh == <<"z", "s", "h">>

\* shellWrapper(shell)
ShellWrapper(shell) ==
  IF shell = Bash THEN [script |-> <<<<"bashWrapper">>>>, ok |-> TRUE]
  ELSE IF shell = Zsh THEN [script |-> <<<<"zshWrapper">>>>, ok |-> TRUE]
  ELSE [script |-> <<>>, ok |-> FALSE]

\* a line "suggest-file: <pattern>: <what>" on stderr
ErrLine(pat, what) == <<"suggest-file: ">> \o pat \o <<": ", what>>

\* the loop with a break where the code has a continue
LoopBodyBreak(out, pat, r, i, n) ==
  IF r.err # "none"
  THEN [stdout |-> out.stdout, stderr |-> out.stderr \o r.log \o <<ErrLine(pat, r.err)>>,
        exitCode |-> 1, next |-> n]
  ELSE [stdout |-> out.stdout \o r.matches,
        stderr |-> out.stderr \o r.log
                     \o (IF r.matches = <<>> THEN <<ErrLine(pat, "no matches")>> ELSE <<>>),
        exitCode |-> out.exitCode, next |-> i + 1]

\* one iteration of main's loop, for the argument at index i (from 0) of n,
\* with r what glob.Expand(pattern) returned: what is printed, and the
\* index of the next argument
LoopBody(out, pat, r, i, n) ==
  IF r.err # "none"
  THEN [stdout |-> out.stdout, stderr |-> out.stderr \o r.log \o <<ErrLine(pat, r.err)>>,
        exitCode |-> 1, next |-> i + 1]
  ELSE [stdout |-> out.stdout \o r.matches,
        stderr |-> out.stderr \o r.log
                     \o (IF r.matches = <<>> THEN <<ErrLine(pat, "no matches")>> ELSE <<>>),
        exitCode |-> out.exitCode, next |-> i + 1]

\* the command lines tried: patterns that match, match nothing and fail,
\* and the words of the help and --shell forms
CliArguments ==
  { <<"p">>, <<"x">>, <<"~">>, <<"[">>, <<"-", "h">>, ShellFlag, Bash }

ArgLists == UNION {[1..k -> CliArguments] : k \in 0..MaxArgs}

InitCLI ==
  /\ fs \in {MkFS([p |-> "dir", l |-> "file"]), MkFS([p |-> "noperm", l |-> "file"])}
  /\ home \in {h \in Homes : h.dir # Root}
  /\ args \in ArgLists
  /\ pattern = <<>>
  /\ argi = 0
  /\ pc = "main"
  /\ res = NoResult
  /\ stdout = <<>>
  /\ stderr = <<>>
  /\ exitCode = 0

IsHelp == Len(args) = 1 /\ args[1] \in HelpFlags
IsShell == Len(args) >= 1 /\ args[1] = ShellFlag

\* -h or --help alone: the usage text, exit status 0
MainHelp ==
  /\ pc = "main" /\ IsHelp
  /\ stdout' = stdout \o HelpText
  /\ pc' = "exit"
  /\ UNCHANGED <<fs, home, pattern, args, argi, res, stderr, exitCode>>

MainShellOut(w) ==
  /\ stdout' = stdout \o w.script
  /\ stderr' = IF w.ok THEN stderr ELSE stderr \o <<ErrLine(args[2], "unknown shell")>>
  /\ exitCode' = IF w.ok THEN exitCode ELSE 1

\* --shell: the wrapper script of the named shell, or exit status 1
MainShell ==
  /\ pc = "main" /\ ~IsHelp /\ IsShell
  /\ IF Len(args) < 2
       THEN /\ stderr' = stderr \o <<<<"suggest-file: --shell requires an argument (bash or zsh)">>>>
            /\ exitCode' = 1
            /\ stdout' = stdout
       ELSE MainShellOut(ShellWrapper(args[2]))
  /\ pc' = "exit"
  /\ UNCHANGED <<fs, home, pattern, args, argi, res>>

MainWalkOut(w) ==
  /\ stdout' = stdout \o w.emit
  /\ stderr' = IF w.err = "nil" THEN stderr \o w.log
               ELSE stderr \o w.log \o <<<<"suggest-file: ", w.err>>>>
  /\ exitCode' = IF w.err = "nil" THEN exitCode ELSE 1

\* no arguments: walker.Walk(".")
MainWalk ==
  /\ pc = "main" /\ Len(args) = 0
  /\ MainWalkOut(WalkFiltered(Dot))
  /\ pc' = "exit"
  /\ UNCHANGED <<fs, home, pattern, args, argi, res>>

\* exitCode := 0, and the loop over the arguments begins
MainStart ==
  /\ pc = "main" /\ ~IsHelp /\ ~IsShell /\ Len(args) > 0
  /\ exitCode' = 0
  /\ argi' = 0
  /\ pc' = "loop"
  /\ UNCHANGED <<fs, home, pattern, args, res, stdout, stderr>>

MainLoopOut(o) ==
  /\ stdout' = o.stdout
  /\ stderr' = o.stderr
  /\ exitCode' = o.exitCode
  /\ argi' = o.next

\* for _, pattern := range args: the next argument is expanded and printed
MainLoop ==
  /\ pc = "loop" /\ argi < Len(args)
  /\ pattern' = args[argi + 1]
  /\ res' = Expand(args[argi + 1])
  /\ MainLoopOut(LoopBody([stdout |-> stdout, stderr |-> stderr, exitCode |-> exitCode],
                          args[argi + 1], Expand(args[argi + 1]), argi, Len(args)))
  /\ pc' = "loop"
  /\ UNCHANGED <<fs, home, args>>

\* after the loop: os.Exit(exitCode) when it is not 0, else return
MainEnd ==
  /\ pc = "loop" /\ argi >= Len(args)
  /\ pc' = "exit"
  /\ UNCHANGED <<fs, home, pattern, args, argi, res, stdout, stderr, exitCode>>

NextCLI == MainHelp \/ MainShell \/ MainWalk \/ MainStart \/ MainLoop \/ MainEnd

SpecCLI == InitCLI /\ [][NextCLI]_vars

(***************************************************************************)
(* What the claims speak of, stated on the file system itself.             *)
(***************************************************************************)
\* one of the characters * ? [ {
HasMetaChar(s) == \E i \in 1..Len(s) : s[i] \in {"*", "?", "[", "{"}

EndsInSep(s) == s # <<>> /\ s[Len(s)] = Sep

NoDuplicates(q) == \A i, j \in 1..Len(q) : q[i] = q[j] => i = j

\* Expand was called and the home directory, if asked for, was there
Expanded == pc = "expanded" /\ res.branch # "tilde"

\* the tilde-expanded argument, and what filepath.Clean makes of it
Arg == ExpandTilde(pattern).path
Cleaned == Clean(Arg)

\* the node is a regular file, or a symbolic link whose chain ends at one
IncludableNode(q) ==
  /\ ResolveFrom(<<>>, q, TRUE, MaxSymlinks).err = "none"
  /\ fs[ResolveFrom(<<>>, q, TRUE, MaxSymlinks).node].kind = "file"

\* the path names a regular file, directly or through symbolic links
DenotesRegularFile(path) ==
  Resolve(path, TRUE).err = "none" /\ fs[Resolve(path, TRUE).node].kind = "file"

\* the path names a directory that can be listed
ListableDir(path) ==
  /\ Resolve(path, TRUE).err = "none"
  /\ fs[Resolve(path, TRUE).node].kind = "dir"
  /\ fs[Resolve(path, TRUE).node].perm

\* node q lies below directory node n, every directory from n down to q's
\* parent can be read, and none of them below n is hidden
ReachableBelow(n, q) ==
  /\ Len(q) > Len(n) /\ SubSeq(q, 1, Len(n)) = n
  /\ \A k \in Len(n)..(Len(q) - 1) :
       /\ fs[SubSeq(q, 1, k)].kind = "dir"
       /\ fs[SubSeq(q, 1, k)].perm
       /\ (k > Len(n) => q[k][1] # ".")

\* the path of node q, which lies below node n, when n is written as root
PathBelow(root, n, q) == Join(root, JoinStr(SubSeq(q, Len(n) + 1, Len(q)), Sep))

WalkSetFrom(root, r) ==
  IF r.err # "none" \/ fs[r.node].kind # "dir" THEN {}
  ELSE {PathBelow(root, r.node, q) :
          q \in {x \in DOMAIN fs : ReachableBelow(r.node, x) /\ IncludableNode(x)}}

\* what a recursive walk of directory root is to emit: the includable
\* entries reachable below it without passing a hidden directory
WalkSet(root) == WalkSetFrom(root, Resolve(root, FALSE))

ListSetFrom(dir, r) ==
  {Join(dir, n) : n \in {x \in ChildNames(r.node) : IncludableNode(Append(r.node, x))}}

\* the includable files that are direct children of directory dir
ListSet(dir) == ListSetFrom(dir, Resolve(dir, TRUE))

\* the entries of node parent whose name starts with prefix
Retained(parent, prefix) == {n \in ChildNames(parent) : HasPrefix(n, prefix)}

PrefixSetFrom(dir, prefix, parent) ==
  UNION {IF fs[Append(parent, n)].kind = "dir" THEN WalkSet(Join(dir, n))
         ELSE IF Stat(Join(dir, n)).kind = "dir"
           THEN SeqToSet(WalkCollect(Join(dir, n)).matches)
         ELSE IF IncludableNode(Append(parent, n)) THEN {Join(dir, n)}
         ELSE {} : n \in Retained(parent, prefix)}

\* what prefix matching on path is to return: each retained includable
\* file, the files to be emitted by the walk of each retained directory,
\* and what WalkCollect returns for each retained link to a directory
PrefixSet(path) == PrefixSetFrom(Dir(path), Base(path), Resolve(Dir(path), TRUE).node)

\* m is a path strictly inside directory d
Under(m, d) ==
  IF d = Dot THEN ~IsAbs(m) /\ ~HasPrefix(m, DotDot)
  ELSE IF d = Root THEN IsAbs(m) /\ Len(m) > 1
  ELSE HasPrefix(m, d \o Root) /\ Len(m) > Len(d) + 1

(***************************************************************************)
(* Claims about Expand and Walk, checked under Spec.                       *)
(***************************************************************************)
\* C1: every path a successful Expand returns names a regular file, or a
\* symbolic link whose chain ends at a regular file, whichever rule (glob,
\* one-level listing, exact file, walk, prefix match) produced it.
C1_ReturnsOnlyRegularFiles ==
  (Expanded /\ res.err = "none")
    => \A i \in 1..Len(res.matches) : DenotesRegularFile(res.matches[i])

\* a glob returned a symbolic link (to a regular file)
C1_Witness ==
  /\ Expanded /\ res.err = "none" /\ res.branch = "glob"
  /\ \E i \in 1..Len(res.matches) : Lstat(res.matches[i]).kind = "symlink"

\* C2: an argument free of metacharacters, without trailing separator, that
\* names an existing directory is resolved by the recursive walk of the
\* cleaned directory (the result is WalkCollect's) and by nothing else:
\* there is no prefix matching, every path returned lies inside
\* it (no file of a sibling whose name only starts with the directory's
\* name), and for a directory that is not a symbolic link the paths are
\* exactly those the walk is to emit.
C2_DirectoryWalkNotPrefix ==
  (Expanded /\ ~HasMetaChar(Arg) /\ ~EndsInSep(Arg) /\ Stat(Cleaned).kind = "dir")
    => /\ res.err = "none" /\ res.branch = "walk"
       /\ res.matches = WalkCollect(Cleaned).matches
       /\ \A i \in 1..Len(res.matches) : Under(res.matches[i], Cleaned)
       /\ Lstat(Cleaned).kind = "dir" => SeqToSet(res.matches) = WalkSet(Cleaned)

\* "p" is a directory with files, beside the sibling "pq" with a file
C2_Witness ==
  /\ Expanded /\ pattern = <<"p">> /\ Lstat(<<"p">>).kind = "dir"
  /\ res.matches # <<>>
  /\ DenotesRegularFile(<<"p", "q", "/", "d">>)

\* C3: whenever the tilde-expanded argument contains one of * ? [ { the
\* outcome of Expand is the glob matcher's outcome on it, also when the
\* argument ends in a separator or names an existing file or directory.
C3_GlobRuleFirst ==
  (Expanded /\ HasMetaChar(Arg))
    => /\ res.branch = "glob"
       /\ res.err = ExpandGlob(Arg).err
       /\ res.matches = ExpandGlob(Arg).matches

\* the argument "a*" names an existing regular file, and the glob matched
\* more than that file
C3_Witness ==
  /\ Expanded /\ pattern = <<"a", "*">> /\ Stat(pattern).kind = "file"
  /\ Len(res.matches) > 1

\* C4: a metacharacter-free argument with a trailing separator whose cleaned
\* form names a directory D that can be listed yields exactly the includable
\* direct children of D, hidden files included, each once, and no path
\* inside a subdirectory of D.
C4_TrailingSlashListsOneLevel ==
  (Expanded /\ ~HasMetaChar(Arg) /\ EndsInSep(Arg) /\ ListableDir(Cleaned))
    => /\ res.err = "none"
       /\ SeqToSet(res.matches) = ListSet(Cleaned)
       /\ NoDuplicates(res.matches)
       /\ \A i \in 1..Len(res.matches) : Dir(res.matches[i]) = Cleaned

\* "p/" listed the hidden file p/.hf and left out p/s/c
C4_Witness ==
  /\ Expanded /\ pattern = <<"p", "/">>
  /\ \E i \in 1..Len(res.matches) : res.matches[i] = <<"p", "/", ".", "h", "f">>
  /\ DenotesRegularFile(<<"p", "/", "s", "/", "c">>)

\* C5: Walk on a root directory R prints exactly the includable entries
\* reachable from R through readable directories none of which, below R,
\* has a name starting with "."; R itself is entered whatever its name.
C5_WalkEmitsExactly ==
  (pc = "walked" /\ Lstat(pattern).kind = "dir")
    => SeqToSet(stdout) = WalkSet(pattern) /\ NoDuplicates(stdout)

\* the walk of "p" printed the hidden file p/.hf while p/.gd/c exists
C5_Witness ==
  /\ pc = "walked" /\ pattern = <<"p">>
  /\ \E i \in 1..Len(stdout) : stdout[i] = <<"p", "/", ".", "h", "f">>
  /\ DenotesRegularFile(<<"p", "/", ".", "g", "d", "/", "c">>)

\* C6: when os.Stat on the cleaned, metacharacter-free argument without
\* trailing separator fails and the failure is not "does not exist", Expand
\* returns an error and no result; prefix matching follows a failure only
\* when the failure is "does not exist".
C6_StatErrorSurfaces ==
  (Expanded /\ ~HasMetaChar(Arg) /\ ~EndsInSep(Arg) /\ Stat(Cleaned).err # "none")
    => IF Stat(Cleaned).err = "ENOENT" THEN res.branch = "prefix"
       ELSE res.branch = "stat" /\ res.err = "stat" /\ res.matches = <<>>

\* os.Stat failed otherwise (too many links, not a directory), where
\* prefix matching would have succeeded
C6_Witness ==
  /\ Expanded /\ res.branch = "stat"
  /\ Stat(Cleaned).err \in {"ELOOP", "ENOTDIR", "EACCES"}
  /\ ExpandPrefix(Cleaned).err = "none"

\* C7: for a metacharacter-free argument P without trailing separator that
\* does not exist, in a parent directory that can be listed, Expand returns
\* each includable file among the parent's entries whose name starts with
\* P's last component (hidden entries too) and the walk of each such
\* directory; when the only such entry is a directory X, that is Expand(X).
C7_PrefixMatch ==
  (Expanded /\ ~HasMetaChar(Arg) /\ ~EndsInSep(Arg) /\ Stat(Cleaned).err = "ENOENT"
     /\ ListableDir(Dir(Cleaned)))
    => /\ res.err = "none" /\ res.branch = "prefix"
       /\ SeqToSet(res.matches) = PrefixSet(Cleaned)
       /\ NoDuplicates(res.matches)
       /\ \A n \in Retained(Resolve(Dir(Cleaned), TRUE).node, Base(Cleaned)) :
            (/\ Retained(Resolve(Dir(Cleaned), TRUE).node, Base(Cleaned)) = {n}
             /\ Stat(Join(Dir(Cleaned), n)).kind = "dir")
              => res.matches = Expand(Join(Dir(Cleaned), n)).matches

\* "p" does not exist, its only sibling starting with "p" is the
\* directory "pq", and the files of "pq" were returned
C7_Witness ==
  /\ Expanded /\ pattern = <<"p">> /\ res.branch = "prefix"
  /\ Retained(Cwd, <<"p">>) = {<<"p", "q">>}
  /\ res.matches # <<>>

\* C11: as the help text has it ("PATH/  Trailing slash: list files in that
\* directory recursively"), a metacharacter-free argument with a trailing
\* separator that names a listable directory returns the files of the
\* recursive walk of that directory.
C11_TrailingSlashRecursive ==
  (Expanded /\ ~HasMetaChar(Arg) /\ EndsInSep(Arg) /\ ListableDir(Cleaned)
     /\ Lstat(Cleaned).kind = "dir")
    => /\ res.err = "none"
       /\ SeqToSet(res.matches) = WalkSet(Cleaned)

\* C12: in prefix matching every retained entry that is a directory once a
\* symbolic link is resolved, a real directory or a link to one, is walked,
\* and every includable file the walk rules reach under it is in the result.
C12_PrefixWalksLinkedDirs ==
  (Expanded /\ ~HasMetaChar(Arg) /\ ~EndsInSep(Arg) /\ Stat(Cleaned).err = "ENOENT"
     /\ ListableDir(Dir(Cleaned)))
    => \A n \in Retained(Resolve(Dir(Cleaned), TRUE).node, Base(Cleaned)) :
         Stat(Join(Dir(Cleaned), n)).kind = "dir"
           => WalkSetFrom(Join(Dir(Cleaned), n), Resolve(Join(Dir(Cleaned), n), TRUE))
                \subseteq SeqToSet(res.matches)

\* the directories a walk from directory node n comes to and cannot list
UnreadableFrom(n) ==
  {q \in DOMAIN fs :
     /\ q = n \/ (ReachableBelow(n, q) /\ q[Len(q)][1] # ".")
     /\ fs[q].kind = "dir" /\ ~fs[q].perm}

\* C13: a traversal error never aborts a walk. Walk returns no error; a
\* root that cannot be looked up is reported and nothing is printed; under
\* a root directory each directory that cannot be listed is reported once
\* and every includable entry not under such a directory is still printed.
\* WalkCollect, as called by Expand on a directory, returns no error either.
C13_WalkErrorsDoNotAbort ==
  /\ pc = "walked" =>
       /\ res.err = "none"
       /\ Lstat(pattern).err # "none" =>
            stdout = <<>> /\ stderr = <<<<"suggest-file: ", Lstat(pattern).err>>>>
       /\ Lstat(pattern).kind = "dir" =>
            /\ SeqToSet(stdout) = WalkSet(pattern)
            /\ Len(stderr) = Cardinality(UnreadableFrom(Resolve(pattern, FALSE).node))
            /\ \A i \in 1..Len(stderr) : stderr[i] = <<"suggest-file: ", "EACCES">>
  /\ (Expanded /\ res.branch = "walk") => res.err = "none"

\* the walk of "." reported the unreadable directory p and went on to
\* print pq/d, which comes after it
C13_Witness ==
  /\ pc = "walked" /\ pattern = <<".">>
  /\ stderr = <<<<"suggest-file: ", "EACCES">>>>
  /\ \E i \in 1..Len(stdout) : stdout[i] = <<"p", "q", "/", "d">>
  /\ \E i \in 1..Len(stdout) : stdout[i] = <<"a", "b">>

\* C15: when the cleaned, metacharacter-free argument without trailing
\* separator exists and is neither a directory nor a regular file (a socket,
\* a FIFO, a device, also behind a symbolic link), Expand neither fails nor
\* stops at the stat step: it goes on to prefix matching, and where the
\* parent can be listed the result is the includable entries and the walks
\* of the directories whose names start with that entry's name, without
\* the entry itself.
C15_SpecialFallsToPrefix ==
  (Expanded /\ ~HasMetaChar(Arg) /\ ~EndsInSep(Arg) /\ Stat(Cleaned).kind = "special")
    => /\ res.branch = "prefix"
       /\ ListableDir(Dir(Cleaned)) =>
            /\ res.err = "none"
            /\ SeqToSet(res.matches) = PrefixSet(Cleaned)
            /\ \A i \in 1..Len(res.matches) : res.matches[i] # Cleaned

\* "p/k" is a socket, and the file p/kf beside it was returned
C15_Witness ==
  /\ Expanded /\ pattern = <<"p", "/", "k">> /\ Lstat(pattern).kind = "special"
  /\ res.branch = "prefix"
  /\ res.matches = <<<<"p", "/", "k", "f">>>>

(***************************************************************************)
(* Claims about expandTilde and splitPattern, checked under SpecFn.        *)
(***************************************************************************)
\* C8: with the home directory H available, expandTilde maps "~" to H and
\* "~/<rest>" to H followed by "/<rest>", so that the result of a "~/..."
\* pattern ends in a separator exactly when the pattern does, and returns
\* every other pattern unchanged.
C8_ExpandTilde ==
  (pc = "tilde" /\ home.ok)
    => /\ res.err = "none"
       /\ IF pattern = <<"~">> THEN res.path = home.dir
          ELSE IF Len(pattern) >= 2 /\ pattern[1] = "~" /\ pattern[2] = "/"
            THEN /\ res.path = home.dir \o <<"/">> \o SubSeq(pattern, 3, Len(pattern))
                 /\ EndsInSep(res.path) <=> EndsInSep(pattern)
          ELSE res.path = pattern

\* "~/<rest>/" was expanded, with a rest and a trailing separator
C8_Witness ==
  /\ pc = "tilde" /\ home.ok
  /\ Len(pattern) > 3 /\ SubSeq(pattern, 1, 2) = <<"~", "/">>
  /\ pattern[3] # "/" /\ EndsInSep(pattern)
  /\ res.path # pattern

\* the last separator of a cleaned path, 0 when it has none
LastSep(c) == IF \E i \in 1..Len(c) : c[i] = Sep
              THEN CHOOSE i \in 1..Len(c) : c[i] = Sep /\ \A j \in (i + 1)..Len(c) : c[j] # Sep
              ELSE 0

\* the parent directory and the final component of a cleaned path
ParentOf(c) == IF LastSep(c) = 0 THEN Dot
               ELSE IF LastSep(c) = 1 THEN Root
               ELSE SubSeq(c, 1, LastSep(c) - 1)
FinalOf(c) == IF c = Root THEN Root ELSE SubSeq(c, LastSep(c) + 1, Len(c))

\* C10: for every pattern without any of * ? [ { splitPattern returns as
\* base the parent directory of the cleaned pattern and as glob expression
\* its final component.
C10_SplitMetaFree ==
  (pc = "split" /\ ~HasMetaChar(pattern))
    => /\ res.base = ParentOf(Clean(pattern))
       /\ res.glob = FinalOf(Clean(pattern))

\* a metacharacter-free pattern of several components was split
C10_Witness ==
  /\ pc = "split" /\ ~HasMetaChar(pattern)
  /\ res.base \notin {Dot, Root}
  /\ res.glob \notin {Dot, Root, DotDot}

\* the position of the first metacharacter of c
FirstMetaPos(c) ==
  CHOOSE k \in 1..Len(c) : HasMetaChar(<<c[k]>>) /\ ~HasMetaChar(SubSeq(c, 1, k - 1))

\* the last separator of c before position k, 0 when there is none
SepBefore(c, k) ==
  IF \E i \in 1..(k - 1) : c[i] = Sep
  THEN CHOOSE i \in 1..(k - 1) : c[i] = Sep /\ \A j \in (i + 1)..(k - 1) : c[j] # Sep
  ELSE 0

\* c cut at separator position j: what precedes the first component with
\* a metacharacter, and that component with all that follows it
BaseBefore(c, j) == IF j = 0 THEN Dot ELSE IF j = 1 THEN Root ELSE SubSeq(c, 1, j - 1)
GlobFrom(c, j) == SubSeq(c, j + 1, Len(c))

\* C14: when the cleaned pattern still has a component with a metacharacter,
\* splitPattern returns as glob expression the components from the first
\* such component on, and as base the components before it, "." when there
\* are none in a relative pattern and "/" in an absolute one; the base has
\* no metacharacter and is not empty, and filepath.Join of base and glob
\* expression is the cleaned pattern.
C14_SplitAtFirstMeta ==
  (pc = "split" /\ HasMetaChar(Clean(pattern)))
    => /\ res.glob = GlobFrom(Clean(pattern), SepBefore(Clean(pattern), FirstMetaPos(Clean(pattern))))
       /\ res.base = BaseBefore(Clean(pattern), SepBefore(Clean(pattern), FirstMetaPos(Clean(pattern))))
       /\ ~HasMetaChar(res.base)
       /\ res.base # <<>>
       /\ Join(res.base, res.glob) = Clean(pattern)

\* a pattern was split between a literal directory and a glob expression
\* of more than one component
C14_Witness ==
  /\ pc = "split" /\ HasMetaChar(Clean(pattern))
  /\ res.base \notin {Dot, Root}
  /\ \E i \in 1..Len(res.glob) : res.glob[i] = Sep
  /\ ~HasMetaChar(<<res.glob[Len(res.glob)]>>)

(***************************************************************************)
(* Claims about the command's loop, checked under SpecCLI.                 *)
(***************************************************************************)
\* what argument i contributes to stdout: its matches when Expand succeeds
PrintedFor(i) == IF Expand(args[i]).err = "none" THEN Expand(args[i]).matches ELSE <<>>

\* C9: the loop resolves the arguments in order and a failing argument does
\* not stop it: after k arguments stdout holds, in order, all matches of
\* each of them whose Expand succeeded; the process exits only once every
\* argument is processed, and then with status 1 exactly when one failed.
C9_LoopContinuesAfterFailure ==
  (pc \in {"loop", "exit"} /\ ~IsHelp /\ ~IsShell /\ Len(args) > 0)
    => /\ argi <= Len(args)
       /\ stdout = Flatten([i \in 1..argi |-> PrintedFor(i)])
       /\ pc = "exit" => argi = Len(args)
       /\ pc = "exit" =>
            exitCode = (IF \E i \in 1..Len(args) : Expand(args[i]).err # "none" THEN 1 ELSE 0)

\* the first argument failed, the second was resolved and its matches printed
C9_Witness ==
  /\ pc = "exit" /\ Len(args) >= 2 /\ argi = Len(args)
  /\ Expand(args[1]).err # "none"
  /\ PrintedFor(2) # <<>>
  /\ exitCode = 1

====
